---- MODULE Spec2Model ----
(***************************************************************************)
(* Model of word-generator.js: the grant text parser (parseGrantText and   *)
(* its extract* helpers) and the document body that                        *)
(* generateGrantReportWord assembles from the parsed grants; and of        *)
(* backend-server.js as listed in SETUP.md: its session store, its         *)
(* endpoints and its rate limiter.                                         *)
(*                                                                         *)
(* Spec is one call of generateGrantReportWord, SpecCalls several calls in *)
(* one process, SpecServer the endpoints of the server and SpecLimiter its *)
(* rate limiter.  Each specification leaves the variables of the others at *)
(* their idle values.                                                      *)
(*                                                                         *)
(* A JavaScript string is a sequence of one-character strings, so that     *)
(* the regular expressions of the source are computed character by         *)
(* character.  A JavaScript value that may be a string, null or undefined  *)
(* is a record [type, str].                                                *)
(***************************************************************************)
EXTENDS Integers, Sequences, FiniteSets, TLC

\* One call of generateGrantReportWord.
VARIABLES pc, text, orgDescription, contextParameters, timestamp, timeZone,
          grants, children, outcome
\* Several calls of generateGrantReportWord in one process.
VARIABLES requests, callPc, doc, results
\* The backend server: its clock, its environment and session store, the
\* sessions issued and logged out so far, and the last request with its
\* answer and the key of the Claude API call made for it.
VARIABLES now, CLAUDE_API_KEY, sessions, nextSession, issuedAt, loggedOut,
          request, response, claudeKeyUsed
\* The rate limiter: the store in use, the requests counted for each client
\* IP in its window and the end of that window, the times at which requests
\* of each IP were passed on to a handler, the number of requests sent and
\* what became of the last one.
VARIABLES windowPolicy, hits, resetTime, admitted, sent, verdict

generatorVars ==
    <<pc, text, orgDescription, contextParameters, timestamp, timeZone, grants,
      children, outcome>>

callVars == <<requests, callPc, doc, results>>

serverVars ==
    <<now, CLAUDE_API_KEY, sessions, nextSession, issuedAt, loggedOut, request,
      response, claudeKeyUsed>>

limiterVars == <<windowPolicy, hits, resetTime, admitted, sent, verdict>>

vars == <<generatorVars, callVars, serverVars, limiterVars>>

(***************************************************************************)
(* Bounds of the model.                                                    *)
(***************************************************************************)
\* An input text has at most MaxLines lines.
MaxLines == 3
\* A request carries at most MaxParams context parameters.
MaxParams == 1
\* At most MaxCalls calls of generateGrantReportWord are in flight at once.
MaxCalls == 2
\* At most MaxSessions sessions are created.
MaxSessions == 2
\* The server is observed for MaxNow minutes.
MaxNow == 2880
\* At most MaxRequests requests reach the rate limiter.
MaxRequests == 12
\* The rate limiter is observed for MaxLimiterNow minutes.
MaxLimiterNow == 15

(***************************************************************************)
(* JavaScript values.                                                      *)
(***************************************************************************)
Str(s) == [type |-> "string", str |-> s]
Null == [type |-> "null", str |-> <<>>]
Undefined == [type |-> "undefined", str |-> <<>>]

\* ToBoolean of a string, null or undefined: only a non-empty string is truthy.
Truthy(v) == v.type = "string" /\ v.str # <<>>

(***************************************************************************)
(* Characters.                                                             *)
(***************************************************************************)
\* White space as matched by \s in a regular expression and removed by trim().
IsWhite(c) == c \in {" ", "\t", "\n", "\r"}

IsDigit(c) == c \in {"0", "1", "2", "3", "4", "5", "6", "7", "8", "9"}

UpperLetters ==
    {"A", "B", "C", "D", "E", "F", "G", "H", "I", "J", "K", "L", "M",
     "N", "O", "P", "Q", "R", "S", "T", "U", "V", "W", "X", "Y", "Z"}

UpperToLower ==
    "A" :> "a" @@ "B" :> "b" @@ "C" :> "c" @@ "D" :> "d" @@ "E" :> "e" @@ "F" :> "f"
    @@ "G" :> "g" @@ "H" :> "h" @@ "I" :> "i" @@ "J" :> "j" @@ "K" :> "k" @@ "L" :> "l"
    @@ "M" :> "m" @@ "N" :> "n" @@ "O" :> "o" @@ "P" :> "p" @@ "Q" :> "q" @@ "R" :> "r"
    @@ "S" :> "s" @@ "T" :> "t" @@ "U" :> "u" @@ "V" :> "v" @@ "W" :> "w" @@ "X" :> "x"
    @@ "Y" :> "y" @@ "Z" :> "z"

\* Canonical form of a character under the i flag of a regular expression.
Fold(c) == IF c \in UpperLetters THEN UpperToLower[c] ELSE c

(***************************************************************************)
(* String helpers.  Positions are 1-based.                                 *)
(***************************************************************************)
\* The literal w occurs in s at position i (case-sensitive).
StartsWith(s, i, w) ==
    /\ i + Len(w) - 1 <= Len(s)
    /\ \A j \in 1..Len(w) : s[i + j - 1] = w[j]

\* The literal w occurs in s at position i under the i flag.
StartsWithCI(s, i, w) ==
    /\ i + Len(w) - 1 <= Len(s)
    /\ \A j \in 1..Len(w) : Fold(s[i + j - 1]) = Fold(w[j])

\* The least and the greatest element of a non-empty set of integers.
Least(S) == CHOOSE x \in S : \A y \in S : x <= y
Greatest(S) == CHOOSE x \in S : \A y \in S : y <= x

\* Greedy \s* from position i: the first position at or after i that holds no
\* white space (Len(s) + 1 when the white space runs to the end).
SkipWhite(s, i) ==
    Least({k \in i..(Len(s) + 1) : k = Len(s) + 1 \/ ~IsWhite(s[k])})

\* The last position at or before i that holds no white space (0 when none).
SkipWhiteBack(s, i) ==
    Greatest({k \in 0..i : k = 0 \/ ~IsWhite(s[k])})

\* Greedy \d* from position i.
SkipDigits(s, i) ==
    Least({k \in i..(Len(s) + 1) : k = Len(s) + 1 \/ ~IsDigit(s[k])})

\* Greedy [^\n]* from position i: the position of the next "\n" at or after i
\* (Len(s) + 1 when there is none).
LineEnd(s, i) ==
    Least({k \in i..(Len(s) + 1) : k = Len(s) + 1 \/ s[k] = "\n"})

\* String.prototype.trim.
Trim(s) ==
    LET first == SkipWhite(s, 1)
        last == SkipWhiteBack(s, Len(s))
    IN  IF first > Len(s) THEN <<>> ELSE SubSeq(s, first, last)

(***************************************************************************)
(* Literals of the source.                                                 *)
(***************************************************************************)
GrantWord == <<"G", "r", "a", "n", "t">>
FoundationWord == <<"F", "o", "u", "n", "d", "a", "t", "i", "o", "n">>
GrantPrefix == <<"G", "r", "a", "n", "t", ":">>
FoundationPrefix == <<"F", "o", "u", "n", "d", "a", "t", "i", "o", "n", ":">>

\* The alternatives of each labelled-field pattern, in the order of the source.
OrganizationLabels ==
    << <<"F", "o", "u", "n", "d", "a", "t", "i", "o", "n">>,
       <<"O", "r", "g", "a", "n", "i", "z", "a", "t", "i", "o", "n">>,
       <<"F", "u", "n", "d", "e", "r">> >>
AmountLabels ==
    << <<"A", "m", "o", "u", "n", "t">>,
       <<"F", "u", "n", "d", "i", "n", "g">>,
       <<"G", "r", "a", "n", "t", " ", "S", "i", "z", "e">> >>
DeadlineLabels ==
    << <<"D", "e", "a", "d", "l", "i", "n", "e">>,
       <<"D", "u", "e">>,
       <<"A", "p", "p", "l", "i", "c", "a", "t", "i", "o", "n", " ", "D", "u", "e">> >>

\* A section is kept when its trimmed length is greater than this.
MinEntryLength == 50

(***************************************************************************)
(* text.split(/\n\n(?=\d+\.|Grant|Foundation)/)                            *)
(***************************************************************************)
\* \d+\. matched at position i: the position after the dot, 0 when no match.
NumberMarkerEnd(s, i) ==
    LET d == SkipDigits(s, i)
    IN  IF d > i /\ d <= Len(s) /\ s[d] = "." THEN d + 1 ELSE 0

\* The lookahead without its numeric alternative: (?=Grant|Foundation).
EntryLookaheadWordsOnly(s, i) ==
    \/ StartsWith(s, i, GrantWord)
    \/ StartsWith(s, i, FoundationWord)

IsLetter(c) == c \in UpperLetters \/ c \in {UpperToLower[u] : u \in UpperLetters}

\* The word w stands at position i and no letter follows it.
WholeWordAt(s, i, w) ==
    /\ StartsWith(s, i, w)
    /\ i + Len(w) <= Len(s) => ~IsLetter(s[i + Len(w)])

\* The lookahead with word boundaries: (?=\d+\.|Grant\b|Foundation\b).
EntryLookaheadWholeWords(s, i) ==
    \/ NumberMarkerEnd(s, i) # 0
    \/ WholeWordAt(s, i, GrantWord)
    \/ WholeWordAt(s, i, FoundationWord)

\* The lookahead (?=\d+\.|Grant|Foundation) at position i.
EntryLookahead(s, i) ==
    \/ NumberMarkerEnd(s, i) # 0
    \/ StartsWith(s, i, GrantWord)
    \/ StartsWith(s, i, FoundationWord)

\* The number of characters the separator pattern consumes: "\n\n".
SeparatorLength == 2

\* The separator pattern consuming one line feed only: /\n(?=\n(?:...))/.
SeparatorEndOneLineFeed(s, q) ==
    IF /\ q + 1 <= Len(s)
       /\ s[q] = "\n"
       /\ s[q + 1] = "\n"
       /\ EntryLookahead(s, q + 2)
    THEN q + 1
    ELSE 0

\* The separator pattern matched at position q: the position after the
\* consumed characters (the lookahead consumes none), 0 when no match.
SeparatorEnd(s, q) ==
    IF /\ q + 1 <= Len(s)
       /\ s[q] = "\n"
       /\ s[q + 1] = "\n"
       /\ EntryLookahead(s, q + 2)
    THEN q + SeparatorLength
    ELSE 0

\* The positions at or after p where the loop of String.prototype.split finds
\* a separator: the pattern matches there and the match does not end at p.
SeparatorsFrom(s, p) == {q \in p..Len(s) : SeparatorEnd(s, q) \notin {0, p}}

RECURSIVE SplitFrom(_, _, _)
\* The loop of String.prototype.split with a regular expression, from the start
\* p of the current piece: the piece ends at the next separator, and the last
\* piece at the end of the string.
SplitFrom(s, p, acc) ==
    IF SeparatorsFrom(s, p) = {}
    THEN Append(acc, SubSeq(s, p, Len(s)))
    ELSE LET q == Least(SeparatorsFrom(s, p))
         IN  SplitFrom(s, SeparatorEnd(s, q), Append(acc, SubSeq(s, p, q - 1)))

\* The candidate sections of a text.
SplitSections(s) == SplitFrom(s, 1, <<>>)

(***************************************************************************)
(* section.split('\n').filter(l => l.trim())                               *)
(***************************************************************************)
RECURSIVE SplitLinesFrom(_, _, _)
SplitLinesFrom(s, p, acc) ==
    LET e == LineEnd(s, p)
    IN  IF e > Len(s)
        THEN Append(acc, SubSeq(s, p, Len(s)))
        ELSE SplitLinesFrom(s, e + 1, Append(acc, SubSeq(s, p, e - 1)))

SplitLines(s) == SplitLinesFrom(s, 1, <<>>)

NonBlank(l) == Trim(l) # <<>>

NonEmptyLines(section) == SelectSeq(SplitLines(section), NonBlank)

(***************************************************************************)
(* extractTitle                                                            *)
(***************************************************************************)
\* replace(/^\d+\.\s*/, '')
StripNumbering(l) ==
    LET e == NumberMarkerEnd(l, 1)
    IN  IF e = 0 THEN l ELSE SubSeq(l, SkipWhite(l, e), Len(l))

\* replace(/^<prefix>\s*/i, '')
StripPrefix(l, prefix) ==
    IF StartsWithCI(l, 1, prefix)
    THEN SubSeq(l, SkipWhite(l, Len(prefix) + 1), Len(l))
    ELSE l

extractTitle(firstLine) ==
    Trim(StripPrefix(StripPrefix(StripNumbering(firstLine), GrantPrefix),
                     FoundationPrefix))

(***************************************************************************)
(* text.match(/(?:A|B|C):\s*([^\n]+)/i)                                    *)
(***************************************************************************)
NoMatch == [ok |-> FALSE, at |-> 0, group |-> <<>>]

\* The pattern with an optional colon: :?\s*([^\n]+).
CaptureAtOptionalColon(s, j) ==
    LET from == IF j <= Len(s) /\ s[j] = ":" THEN j + 1 ELSE j
        w == SkipWhite(s, from)
        starts == {k \in from..w : k <= Len(s) /\ s[k] # "\n"}
    IN  IF starts = {}
        THEN NoMatch
        ELSE [ok |-> TRUE, at |-> j,
              group |-> SubSeq(s, Greatest(starts), LineEnd(s, Greatest(starts)) - 1)]

\* :\s*([^\n]+) matched at position j, the position after the label.  \s* is
\* greedy and gives characters back until [^\n]+ finds a character to start on.
CaptureAt(s, j) ==
    IF j > Len(s) \/ s[j] # ":"
    THEN NoMatch
    ELSE LET w == SkipWhite(s, j + 1)
             starts == {k \in (j + 1)..w : k <= Len(s) /\ s[k] # "\n"}
         IN  IF starts = {}
             THEN NoMatch
             ELSE LET k == Greatest(starts)
                  IN  [ok |-> TRUE, at |-> j, group |-> SubSeq(s, k, LineEnd(s, k) - 1)]

RECURSIVE AlternativesAt(_, _, _, _)
\* The alternatives of the pattern tried in order at position i.
AlternativesAt(s, i, labels, n) ==
    IF n > Len(labels)
    THEN NoMatch
    ELSE LET m == IF StartsWithCI(s, i, labels[n])
                  THEN CaptureAt(s, i + Len(labels[n]))
                  ELSE NoMatch
         IN  IF m.ok THEN [m EXCEPT !.at = i] ELSE AlternativesAt(s, i, labels, n + 1)

\* The rightmost match of the pattern in s: a later occurrence wins.
LastMatch(s, labels) ==
    LET found == {i \in 1..Len(s) : AlternativesAt(s, i, labels, 1).ok}
    IN  IF found = {} THEN NoMatch ELSE AlternativesAt(s, Greatest(found), labels, 1)

\* The leftmost match of the pattern in s.
FirstMatch(s, labels) ==
    LET found == {i \in 1..Len(s) : AlternativesAt(s, i, labels, 1).ok}
    IN  IF found = {} THEN NoMatch ELSE AlternativesAt(s, Least(found), labels, 1)

\* match ? match[1].trim() : null
ExtractField(s, labels) ==
    LET m == FirstMatch(s, labels)
    IN  IF m.ok THEN Str(Trim(m.group)) ELSE Null

extractOrganization(s) == ExtractField(s, OrganizationLabels)

extractAmount(s) == ExtractField(s, AmountLabels)

extractDeadline(s) == ExtractField(s, DeadlineLabels)

(***************************************************************************)
(* parseGrantText                                                          *)
(***************************************************************************)
\* The length filter without its threshold: section.trim().length > 0.
LongEnoughNonBlank(section) == Len(Trim(section)) > 0

\* The filter that keeps a section of the minimum length too.
LongEnoughOrEqual(section) == Len(Trim(section)) >= MinEntryLength

\* section.trim().length > 50
LongEnough(section) == Len(Trim(section)) > MinEntryLength

\* The object pushed for one section, with a trimmed description.
GrantOfTrimmedDescription(section) ==
    [raw |-> section,
     title |-> Str(extractTitle(NonEmptyLines(section)[1])),
     organization |-> extractOrganization(section),
     amount |-> extractAmount(section),
     deadline |-> extractDeadline(section),
     description |-> Trim(section)]

\* The object pushed for one section.
GrantOf(section) ==
    [raw |-> section,
     title |-> Str(extractTitle(NonEmptyLines(section)[1])),
     organization |-> extractOrganization(section),
     amount |-> extractAmount(section),
     deadline |-> extractDeadline(section),
     description |-> section]

\* The section passes both conditions of the loop body.
Retained(section) == LongEnough(section) /\ Len(NonEmptyLines(section)) > 0

RECURSIVE GrantsOf(_, _)
\* The for loop over the sections, from the k-th on.
GrantsOf(sections, k) ==
    IF k > Len(sections)
    THEN <<>>
    ELSE IF Retained(sections[k])
         THEN <<GrantOf(sections[k])>> \o GrantsOf(sections, k + 1)
         ELSE GrantsOf(sections, k + 1)

\* parseGrantText on a string.
parseGrantText(s) == GrantsOf(SplitSections(s), 1)

(***************************************************************************)
(* Inputs.  A text is at most MaxLines lines of Lines joined by "\n", or    *)
(* the worked example of the specification; a request may also lack its    *)
(* text.                                                                   *)
(***************************************************************************)
BlankLine == <<>>
LongEntryLine ==
    <<"1", ".", " ", "F", "o", "u", "n", "d", "a", "t", "i", "o", "n", " ", "A", "B",
      "C", " ", "c", "o", "m", "m", "u", "n", "i", "t", "y", " ", "a", "r", "t", "s",
      " ", "a", "n", "d", " ", "e", "d", "u", "c", "a", "t", "i", "o", "n", " ", "p",
      "r", "o", "g", "r", "a", "m", " ", "f", "u", "n", "d">>
OrganizationLine ==
    <<"F", "o", "u", "n", "d", "a", "t", "i", "o", "n", ":", " ", "X", "Y", "Z", " ",
      "C", "o", "r", "p">>
FunderLine ==
    <<"f", "u", "n", "d", "e", "r", ":", " ", "A", "c", "m", "e">>
BareDeadlineLine ==
    <<"D", "e", "a", "d", "l", "i", "n", "e", ":">>
PaddingLine ==
    <<"S", "o", "m", "e", " ", "d", "e", "s", "c", "r", "i", "p", "t", "i", "o", "n",
      " ", "t", "e", "x", "t", " ", "p", "a", "d", "d", "i", "n", "g", " ", "t", "o",
      " ", "e", "x", "c", "e", "e", "d", " ", "f", "i", "f", "t", "y", " ", "c", "h",
      "a", "r", "a", "c", "t", "e", "r", "s", " ", "t", "o", "t", "a", "l", ".">>
IndentedLine ==
    <<" ", " ", "2", ".", " ", "G", "r", "a", "n", "t", ":", " ", "I", "n", "d", "e",
      "n", "t", "e", "d">>
AmountLine ==
    <<"A", "m", "o", "u", "n", "t", ":", " ", "$", "1", "0", ",", "0", "0", "0">>
ExampleTitleLine ==
    <<"1", ".", " ", "F", "o", "u", "n", "d", "a", "t", "i", "o", "n", " ", "A", "B",
      "C">>
ExampleDeadlineLine ==
    <<"D", "e", "a", "d", "l", "i", "n", "e", ":", " ", "2", "0", "2", "6", "-", "0",
      "1", "-", "0", "1">>

SpaceLine == <<" ", "\t">>

Lines ==
    {BlankLine, SpaceLine, LongEntryLine, OrganizationLine, FunderLine,
     BareDeadlineLine, PaddingLine, IndentedLine, AmountLine}

RECURSIVE JoinWith(_, _)
\* The pieces joined with the separator sep between them.
JoinWith(pieces, sep) ==
    IF pieces = <<>>
    THEN <<>>
    ELSE IF Len(pieces) = 1
         THEN pieces[1]
         ELSE pieces[1] \o sep \o JoinWith(Tail(pieces), sep)

WorkedExample ==
    JoinWith(<<ExampleTitleLine, OrganizationLine, AmountLine, ExampleDeadlineLine,
               PaddingLine>>, <<"\n">>)

\* A first line that is nothing but a prefix extractTitle strips.
BareGrantLine == <<"G", "r", "a", "n", "t", ":">>

\* Three entries: a numbered one, one whose title is empty, and one that
\* begins with the word Foundation.
ThreeGrantsExample ==
    JoinWith(<<LongEntryLine, BlankLine, BareGrantLine, PaddingLine, BlankLine,
               OrganizationLine, PaddingLine>>, <<"\n">>)

\* A line that begins with a word longer than "Grant".
GrantsLine ==
    <<"G", "r", "a", "n", "t", "s", " ", "f", "o", "r", " ", "r", "u", "r", "a",
      "l", " ", "l", "i", "b", "r", "a", "r", "i", "e", "s", " ", "a", "n", "d",
      " ", "c", "o", "m", "m", "u", "n", "i", "t", "y", " ", "r", "e", "a", "d",
      "i", "n", "g", " ", "r", "o", "o", "m", "s">>

\* A blank line followed by a line that begins with "Grants".
LongerWordExample ==
    JoinWith(<<PaddingLine, BlankLine, GrantsLine>>, <<"\n">>)

\* Two entries with Windows line ends: the blank line holds a carriage return.
CarriageReturnExample ==
    JoinWith(<<PaddingLine \o <<"\r">>, <<"\r">>, LongEntryLine>>, <<"\n">>)

Texts ==
    {JoinWith(ls, <<"\n">>) : ls \in UNION {[1..n -> Lines] : n \in 0..MaxLines}}
        \cup {WorkedExample, ThreeGrantsExample, LongerWordExample,
              CarriageReturnExample}

TextInputs == {Str(t) : t \in Texts} \cup {Undefined}

OrgText == <<"A", "r", "t", "s", " ", "n", "o", "n", "p", "r", "o", "f", "i", "t">>

OrgInputs == {Null, Str(<<>>), Str(OrgText)}

FocusParam ==
    [id |-> <<"f", "o", "c", "u", "s">>,
     label |-> <<"F", "o", "c", "u", "s">>,
     description |-> <<"A", "r", "t", "s">>]

Params == {FocusParam}

Array(items) == [type |-> "array", items |-> items]
NoArray(type) == [type |-> type, items |-> <<>>]

ParamInputs ==
    {Array(ps) : ps \in UNION {[1..n -> Params] : n \in 0..MaxParams}}
        \cup {NoArray("null")}

\* The instants a request's timestamp names: a day of Calendar and an hour of
\* that day, both in UTC.
NewYearMidnight == [day |-> 2, hour |-> 0]
NewYearNoon == [day |-> 2, hour |-> 12]
NoTimestamp == [day |-> 0, hour |-> 0]

Timestamps == {NewYearMidnight, NewYearNoon}

\* The time zones a host may be configured with, as offsets from UTC in hours.
UTC == [name |-> "UTC", offset |-> 0]
LosAngeles == [name |-> "America/Los_Angeles", offset |-> -8]
UnreadZone == [name |-> "unread", offset |-> 0]

TimeZones == {UTC, LosAngeles}

(***************************************************************************)
(* The children of the document section (lines 141-222).                   *)
(***************************************************************************)
ReportTitleText ==
    <<"G", "r", "a", "n", "t", " ", "P", "r", "o", "s", "p", "e", "c", "t", "i", "n",
      "g", " ", "R", "e", "p", "o", "r", "t">>
GeneratedText ==
    <<"G", "e", "n", "e", "r", "a", "t", "e", "d", ":", " ">>
OrganizationProfileText ==
    <<"O", "r", "g", "a", "n", "i", "z", "a", "t", "i", "o", "n", " ", "P", "r", "o",
      "f", "i", "l", "e">>
SearchParametersText ==
    <<"S", "e", "a", "r", "c", "h", " ", "P", "a", "r", "a", "m", "e", "t", "e", "r",
      "s">>
GrantOpportunitiesText ==
    <<"G", "r", "a", "n", "t", " ", "O", "p", "p", "o", "r", "t", "u", "n", "i", "t",
      "i", "e", "s">>
GrantOpportunityText ==
    <<"G", "r", "a", "n", "t", " ", "O", "p", "p", "o", "r", "t", "u", "n", "i", "t",
      "y">>
OrganizationLabelText ==
    <<"O", "r", "g", "a", "n", "i", "z", "a", "t", "i", "o", "n">>
AmountLabelText ==
    <<"A", "m", "o", "u", "n", "t">>
DeadlineLabelText ==
    <<"D", "e", "a", "d", "l", "i", "n", "e">>

\* The days around 2026-01-01 as toLocaleDateString('en-US', {weekday: 'long',
\* year: 'numeric', month: 'long', day: 'numeric'}) writes them.
Calendar ==
    << <<"W", "e", "d", "n", "e", "s", "d", "a", "y", ",", " ", "D", "e", "c", "e", "m", "b", "e", "r", " ", "3", "1", ",", " ", "2", "0", "2", "5">>,
       <<"T", "h", "u", "r", "s", "d", "a", "y", ",", " ", "J", "a", "n", "u", "a", "r", "y", " ", "1", ",", " ", "2", "0", "2", "6">>,
       <<"F", "r", "i", "d", "a", "y", ",", " ", "J", "a", "n", "u", "a", "r", "y", " ", "2", ",", " ", "2", "0", "2", "6">> >>

\* new Date(timestamp).toLocaleDateString('en-US', {...}) on a host in the
\* time zone zone: no timeZone option is passed (lines 155-160), so the day is
\* the one the instant falls on in the host's zone.
toLocaleDateString(ts, zone) ==
    Calendar[ts.day + ((ts.hour + zone.offset) \div 24)]

\* new Paragraph({heading: HeadingLevel.HEADING_<level>, children: [new TextRun(t)]})
Heading(level, t) == [kind |-> "heading", level |-> level, runs |-> <<t>>, rows |-> <<>>]

\* new Paragraph({children: [new TextRun(...), ...]})
Para(runs) == [kind |-> "paragraph", level |-> 0, runs |-> runs, rows |-> <<>>]

\* new Paragraph({numbering: {reference: "bullets", level: 0}, children: [...]})
Bullet(runs) == [kind |-> "bullet", level |-> 0, runs |-> runs, rows |-> <<>>]

\* new Table({rows})
TableOf(rows) == [kind |-> "table", level |-> 0, runs |-> <<>>, rows |-> rows]

\* The section emitted for every string: orgDescription !== null && ...
OrganizationSectionForAnyString(org) ==
    IF org.type = "string"
    THEN <<Heading(2, OrganizationProfileText), Para(<<org.str>>)>>
    ELSE <<>>

\* ...(orgDescription ? [heading, paragraph] : [])
OrganizationSection(org) ==
    IF Truthy(org)
    THEN <<Heading(2, OrganizationProfileText), Para(<<org.str>>)>>
    ELSE <<>>

\* contextParameters.map(param => new Paragraph(...))
ParamBullets(items) ==
    [k \in 1..Len(items) |->
        Bullet(<<items[k].label \o <<":", " ">>, items[k].description>>)]

\* ...(contextParameters && contextParameters.length > 0 ? [...] : [])
ParametersSection(params) ==
    IF params.type = "array" /\ Len(params.items) > 0
    THEN <<Heading(2, SearchParametersText)>> \o ParamBullets(params.items)
             \o <<Para(<< <<>> >>)>>
    ELSE <<>>

\* `${index + 1}. ` for the small indexes of the model.
IndexText(k) ==
    <<CASE k = 1 -> "1" [] k = 2 -> "2" [] k = 3 -> "3" [] k = 4 -> "4"
        [] k = 5 -> "5" [] k = 6 -> "6" [] k = 7 -> "7" [] k = 8 -> "8"
        [] OTHER -> "9", ".", " ">>

\* createTableRow(label, value, borders)
createTableRow(label, value) == <<label, value>>

\* The rows pushed with the deadline first.
TableRowsDeadlineFirst(grant) ==
    (IF Truthy(grant.deadline)
     THEN <<createTableRow(DeadlineLabelText, grant.deadline.str)>> ELSE <<>>)
    \o (IF Truthy(grant.organization)
        THEN <<createTableRow(OrganizationLabelText, grant.organization.str)>> ELSE <<>>)
    \o (IF Truthy(grant.amount)
        THEN <<createTableRow(AmountLabelText, grant.amount.str)>> ELSE <<>>)

\* The rows pushed for one grant (lines 301-311).
TableRows(grant) ==
    (IF Truthy(grant.organization)
     THEN <<createTableRow(OrganizationLabelText, grant.organization.str)>> ELSE <<>>)
    \o (IF Truthy(grant.amount)
        THEN <<createTableRow(AmountLabelText, grant.amount.str)>> ELSE <<>>)
    \o (IF Truthy(grant.deadline)
        THEN <<createTableRow(DeadlineLabelText, grant.deadline.str)>> ELSE <<>>)

\* The heading built from the title alone: `${index + 1}. ${grant.title}`.
GrantSectionUntitled(grant, k) ==
    <<Heading(3, IndexText(k) \o grant.title.str)>>
    \o (IF Truthy(grant.organization) \/ Truthy(grant.amount) \/ Truthy(grant.deadline)
        THEN <<TableOf(TableRows(grant))>> ELSE <<>>)
    \o <<Para(<<grant.description>>)>>

\* The elements pushed for the grant at 0-based index k - 1 (lines 285-331).
GrantSection(grant, k) ==
    <<Heading(3, IndexText(k) \o (IF Truthy(grant.title) THEN grant.title.str
                                  ELSE GrantOpportunityText))>>
    \o (IF Truthy(grant.organization) \/ Truthy(grant.amount) \/ Truthy(grant.deadline)
        THEN <<TableOf(TableRows(grant))>> ELSE <<>>)
    \o <<Para(<<grant.description>>)>>

RECURSIVE GrantSectionsFrom(_, _)
GrantSectionsFrom(gs, k) ==
    IF k > Len(gs)
    THEN <<>>
    ELSE GrantSection(gs[k], k) \o GrantSectionsFrom(gs, k + 1)

createGrantSections(gs) == GrantSectionsFrom(gs, 1)

\* The children array of the section; date is the formatted timestamp of the
\* date paragraph.
SectionChildren(org, params, gs, date) ==
    <<Heading(1, ReportTitleText), Para(<<GeneratedText \o date>>)>>
    \o OrganizationSection(org)
    \o ParametersSection(params)
    \o <<Heading(2, GrantOpportunitiesText)>>
    \o createGrantSections(gs)

(***************************************************************************)
(* generateGrantReportWord as a state machine.                             *)
(***************************************************************************)
\* The function has been called with a request.  Its text is read first
\* (line 19); timestamp, orgDescription and contextParameters are first read
\* when the document is constructed (lines 155, 168 and 184), and so is the
\* host's time zone; the model draws them there.
\* A request to the backend server, with the body fields and headers the
\* endpoints read.
Req(route, email, password, prompt, sessionId, directApiKey) ==
    [route |-> route, email |-> email, password |-> password, prompt |-> prompt,
     sessionId |-> sessionId, directApiKey |-> directApiKey]

NoRequest == Req("", "", "", "", "", "")


\* res.status(status).json(body)
Json(status, body) == [status |-> status, body |-> body]
NoResponse == Json(0, [none |-> ""])

\* No request has reached the server.
NoServer ==
    /\ now = 0
    /\ CLAUDE_API_KEY = ""
    /\ sessions = <<>>
    /\ nextSession = 1
    /\ issuedAt = <<>>
    /\ loggedOut = {}
    /\ request = NoRequest
    /\ response = NoResponse
    /\ claudeKeyUsed = ""

\* The client IPs the rate limiter tells apart.
ClientIps == {"203.0.113.1", "203.0.113.2"}

\* No request has reached the limiter.
NoLimiter ==
    /\ windowPolicy = "perClient"
    /\ hits = [ip \in ClientIps |-> 0]
    /\ resetTime = [ip \in ClientIps |-> 0]
    /\ admitted = [ip \in ClientIps |-> <<>>]
    /\ sent = 0
    /\ verdict = [ip |-> "", status |-> 0]

\* No concurrent calls are made.
NoCalls ==
    /\ requests = <<>>
    /\ callPc = <<>>
    /\ doc = <<>>
    /\ results = <<>>

Init ==
    /\ pc = "called"
    /\ text \in TextInputs
    /\ orgDescription = Undefined
    /\ contextParameters = NoArray("undefined")
    /\ timestamp = NoTimestamp
    /\ timeZone = UnreadZone
    /\ grants = <<>>
    /\ children = <<>>
    /\ outcome = "pending"
    /\ NoCalls
    /\ NoServer
    /\ NoLimiter

\* Line 19 on a string: the grants are parsed.
Parse ==
    /\ pc = "called"
    /\ text.type = "string"
    /\ grants' = parseGrantText(text.str)
    /\ pc' = "parsed"
    /\ UNCHANGED <<text, orgDescription, contextParameters, timestamp, timeZone,
                   children, outcome, callVars, serverVars, limiterVars>>

\* Line 19 and 236 on a value that is no string: text.split throws a TypeError,
\* which rejects the promise of the async function.
ParseThrows ==
    /\ pc = "called"
    /\ text.type # "string"
    /\ pc' = "rejected"
    /\ outcome' = "TypeError"
    /\ UNCHANGED <<text, orgDescription, contextParameters, timestamp, timeZone,
                   grants, children, callVars, serverVars, limiterVars>>

\* Lines 21-225: the document is constructed from the request's
\* orgDescription and contextParameters and the parsed grants.
Build ==
    /\ pc = "parsed"
    /\ \E org \in OrgInputs, params \in ParamInputs, ts \in Timestamps,
          zone \in TimeZones :
        /\ orgDescription' = org
        /\ contextParameters' = params
        /\ timestamp' = ts
        /\ timeZone' = zone
        /\ children' = SectionChildren(org, params, grants,
                                       toLocaleDateString(ts, zone))
    /\ pc' = "built"
    /\ UNCHANGED <<text, grants, outcome, callVars, serverVars, limiterVars>>

\* Line 227: Packer.toBuffer resolves with the buffer.
PackResolves ==
    /\ pc = "built"
    /\ pc' = "resolved"
    /\ outcome' = "buffer"
    /\ UNCHANGED <<text, orgDescription, contextParameters, timestamp, timeZone,
                   grants, children, callVars, serverVars, limiterVars>>

\* Line 227: Packer.toBuffer rejects; the await rethrows the error.
PackRejects ==
    /\ pc = "built"
    /\ pc' = "rejected"
    /\ outcome' = "SerializationError"
    /\ UNCHANGED <<text, orgDescription, contextParameters, timestamp, timeZone,
                   grants, children, callVars, serverVars, limiterVars>>

Next ==
    \/ Parse
    \/ ParseThrows
    \/ Build
    \/ PackResolves
    \/ PackRejects

Spec == Init /\ [][Next]_vars

(***************************************************************************)
(* Several calls of generateGrantReportWord in one Node.js process.  A     *)
(* call runs without interruption from its entry to its only await         *)
(* (line 227); the calls interleave there.                                 *)
(***************************************************************************)
Calls == 1..MaxCalls

\* The requests of the concurrent calls.
CallTexts == {Str(PaddingLine), Str(WorkedExample), Undefined}

Requests ==
    [text : CallTexts, orgDescription : {Null, Str(OrgText)},
     contextParameters : {Array(<<FocusParam>>)}, timestamp : {NewYearMidnight}]

\* The awaited promise has not settled.
Pending == [kind |-> "pending", body |-> <<>>]
\* The buffer Packer.toBuffer resolves with for a document of the given body.
BufferOf(body) == [kind |-> "buffer", body |-> body]
\* The error the call is rejected with.
Thrown(name) == [kind |-> name, body |-> <<>>]

\* One Document for all calls, as a module-level variable would be.
DocOfShared(c) == 1

\* The Document of call c: `const doc = new Document(...)` is local to the
\* call (line 21).
DocOf(c) == c

\* The calls have been made; none has run yet.  The host's time zone is the
\* same for all of them.
InitCalls ==
    /\ pc = "unused"
    /\ text = Undefined
    /\ orgDescription = Undefined
    /\ contextParameters = NoArray("undefined")
    /\ timestamp = NoTimestamp
    /\ timeZone \in TimeZones
    /\ grants = <<>>
    /\ children = <<>>
    /\ outcome = "pending"
    /\ requests \in [Calls -> Requests]
    /\ callPc = [c \in Calls |-> "called"]
    /\ doc = [c \in Calls |-> <<>>]
    /\ results = [c \in Calls |-> Pending]
    /\ NoServer
    /\ NoLimiter

\* Lines 15-227 up to the await: call c parses its text, builds its document
\* and hands it to Packer.toBuffer.
RunCall(c) ==
    /\ callPc[c] = "called"
    /\ requests[c].text.type = "string"
    /\ doc' = [doc EXCEPT ![DocOf(c)] =
                  SectionChildren(requests[c].orgDescription,
                                  requests[c].contextParameters,
                                  parseGrantText(requests[c].text.str),
                                  toLocaleDateString(requests[c].timestamp,
                                                     timeZone))]
    /\ callPc' = [callPc EXCEPT ![c] = "awaiting"]
    /\ UNCHANGED <<requests, results, generatorVars, serverVars, limiterVars>>

\* Lines 19 and 236 on a text that is no string: call c is rejected.
RunCallThrows(c) ==
    /\ callPc[c] = "called"
    /\ requests[c].text.type # "string"
    /\ callPc' = [callPc EXCEPT ![c] = "rejected"]
    /\ results' = [results EXCEPT ![c] = Thrown("TypeError")]
    /\ UNCHANGED <<requests, doc, generatorVars, serverVars, limiterVars>>

\* Line 227: the promise of call c resolves with the buffer of its document.
CallResolves(c) ==
    /\ callPc[c] = "awaiting"
    /\ callPc' = [callPc EXCEPT ![c] = "resolved"]
    /\ results' = [results EXCEPT ![c] = BufferOf(doc[DocOf(c)])]
    /\ UNCHANGED <<requests, doc, generatorVars, serverVars, limiterVars>>

\* Line 227: the promise of call c rejects.
CallRejects(c) ==
    /\ callPc[c] = "awaiting"
    /\ callPc' = [callPc EXCEPT ![c] = "rejected"]
    /\ results' = [results EXCEPT ![c] = Thrown("SerializationError")]
    /\ UNCHANGED <<requests, doc, generatorVars, serverVars, limiterVars>>

NextCalls ==
    \E c \in Calls :
        \/ RunCall(c)
        \/ RunCallThrows(c)
        \/ CallResolves(c)
        \/ CallRejects(c)

SpecCalls == InitCalls /\ [][NextCalls]_vars

(***************************************************************************)
(* backend-server.js (SETUP.md, lines 318-715): the session store and the  *)
(* endpoints under /api/.  A string that is absent (an undefined header,   *)
(* body field or environment variable) is the empty string, which is falsy *)
(* like undefined.  Times are in minutes.                                  *)
(***************************************************************************)
\* 24 * 60 * 60 * 1000 ms: the lifetime of a session.
SessionMinutes == 1440
\* 60 * 60 * 1000 ms: the period of the clean-up timer.
CleanupMinutes == 60

\* The amounts of time that pass between two events of the model.
ClockSteps == {720}

\* The .env file (lines 735-745).
CANDID_API_KEY == "your-candid-key-here"
CLAUDE_USERS == ("user1@example.com" :> "sk-ant-key1")
CANDID_USERS == ("user1@example.com" :> "candid-key1")
USER_PASSWORDS == ("user1@example.com" :> "password123")
\* CLAUDE_API_KEY is set or left out.
ServerClaudeKeys == {"sk-ant-your-key-here", ""}

\* object[key], undefined when the object has no such property.
Lookup(object, key) == IF key \in DOMAIN object THEN object[key] ELSE ""

\* hashedPasswords[email] === password
validatePassword(password, email) == Lookup(USER_PASSWORDS, email) = password

\* The n-th value of crypto.randomBytes(32).toString('hex').
generateSessionId(n) == "session-" \o ToString(n)

\* What the clients send.
Emails == {"user1@example.com", "stranger@example.com", ""}
Passwords == {"password123", "guess", ""}
Prompts == {"Find grants", ""}
SessionIdHeaders == {generateSessionId(n) : n \in 1..MaxSessions} \cup {"forged", ""}
ApiKeyHeaders == {"sk-ant-client", ""}

ClaudeLoginReq(email, password) ==
    Req("/api/auth/claude/login", email, password, "", "", "")
CandidLoginReq(email, password) ==
    Req("/api/auth/candid/login", email, password, "", "", "")
LogoutReq(sessionId) == Req("/api/auth/logout", "", "", "", sessionId, "")
ResearchReq(prompt, sessionId, directApiKey) ==
    Req("/api/research", "", "", prompt, sessionId, directApiKey)
CandidSearchReq == Req("/api/candid/search", "", "", "", "", "")
CombinedResearchReq == Req("/api/combined-research", "", "", "Find grants", "", "")
HealthReq == Req("/api/health", "", "", "", "", "")

ApiRequests ==
    {ClaudeLoginReq(e, p) : e \in Emails, p \in Passwords}
    \cup {CandidLoginReq(e, p) : e \in Emails, p \in Passwords}
    \cup {LogoutReq(s) : s \in SessionIdHeaders}
    \cup {ResearchReq(p, s, k) : p \in Prompts, s \in SessionIdHeaders,
                                 k \in ApiKeyHeaders}
    \cup {CandidSearchReq, CombinedResearchReq, HealthReq}

\* No call of generateGrantReportWord is made.
NoGenerator ==
    /\ pc = "unused"
    /\ text = Undefined
    /\ orgDescription = Undefined
    /\ contextParameters = NoArray("undefined")
    /\ timestamp = NoTimestamp
    /\ timeZone = UnreadZone
    /\ grants = <<>>
    /\ children = <<>>
    /\ outcome = "pending"

\* The server has started (lines 343-348): no session exists.
InitServer ==
    /\ NoGenerator
    /\ NoCalls
    /\ now = 0
    /\ CLAUDE_API_KEY \in ServerClaudeKeys
    /\ sessions = <<>>
    /\ nextSession = 1
    /\ issuedAt = <<>>
    /\ loggedOut = {}
    /\ request = NoRequest
    /\ response = NoResponse
    /\ claudeKeyUsed = ""
    /\ NoLimiter

\* The request req is answered with res; key is the x-api-key of the call to
\* the Claude API made for it, empty when no call is made.
Answer(req, res, key) ==
    /\ request' = req
    /\ response' = res
    /\ claudeKeyUsed' = key

\* The last exchange is over: request, response and claudeKeyUsed describe
\* an exchange only in the state of the server it took place in.
ExchangeOver == Answer(NoRequest, NoResponse, "")

\* sessions.delete for every id in ids.
Without(ids) == [s \in DOMAIN sessions \ ids |-> sessions[s]]

\* POST /api/auth/claude/login (lines 355-393).
ClaudeLogin(email, password) ==
    LET req == ClaudeLoginReq(email, password)
        userApiKey == Lookup(CLAUDE_USERS, email)
        sessionId == generateSessionId(nextSession)
    IN  IF email = "" \/ password = ""
        THEN /\ Answer(req, Json(400, [error |-> "Email and password are required"]), "")
             /\ UNCHANGED <<sessions, nextSession, issuedAt>>
        ELSE IF userApiKey = "" \/ ~validatePassword(password, email)
        THEN /\ Answer(req, Json(401, [error |-> "Invalid credentials"]), "")
             /\ UNCHANGED <<sessions, nextSession, issuedAt>>
        ELSE /\ nextSession <= MaxSessions
             /\ sessions' = sessions @@
                    (sessionId :> [email |-> email, claudeApiKey |-> userApiKey,
                                   createdAt |-> now,
                                   expiresAt |-> now + SessionMinutes])
             /\ nextSession' = nextSession + 1
             /\ issuedAt' = issuedAt @@ (sessionId :> now)
             /\ Answer(req, Json(200, [success |-> "true", sessionId |-> sessionId,
                                       expiresAt |-> ToString(now + SessionMinutes)]),
                       "")

ClaudeLoginStep ==
    /\ \E email \in Emails, password \in Passwords : ClaudeLogin(email, password)
    /\ UNCHANGED <<now, CLAUDE_API_KEY, loggedOut, generatorVars, callVars, limiterVars>>

\* POST /api/auth/candid/login (lines 396-417).
CandidLogin(email, password) ==
    LET req == CandidLoginReq(email, password)
        userApiKey == Lookup(CANDID_USERS, email)
    IN  IF userApiKey = "" \/ ~validatePassword(password, email)
        THEN Answer(req, Json(401, [error |-> "Invalid credentials"]), "")
        ELSE Answer(req, Json(200, [success |-> "true", apiKey |-> userApiKey]), "")

CandidLoginStep ==
    /\ \E email \in Emails, password \in Passwords : CandidLogin(email, password)
    /\ UNCHANGED <<now, CLAUDE_API_KEY, sessions, nextSession, issuedAt, loggedOut,
                   generatorVars, callVars, limiterVars>>

\* The logout that answers and deletes nothing.
LogoutKeepsSession(sessionId) ==
    /\ sessions' = sessions
    /\ loggedOut' = loggedOut \cup ({sessionId} \cap DOMAIN issuedAt)
    /\ Answer(LogoutReq(sessionId), Json(200, [success |-> "true"]), "")

\* POST /api/auth/logout (lines 455-461).
Logout(sessionId) ==
    /\ sessions' = IF sessionId # "" THEN Without({sessionId}) ELSE sessions
    /\ loggedOut' = loggedOut \cup ({sessionId} \cap DOMAIN issuedAt)
    /\ Answer(LogoutReq(sessionId), Json(200, [success |-> "true"]), "")

LogoutStep ==
    /\ \E sessionId \in SessionIdHeaders : Logout(sessionId)
    /\ UNCHANGED <<now, CLAUDE_API_KEY, nextSession, issuedAt, generatorVars,
                   callVars, limiterVars>>

\* The clean-up timer (lines 464-471) fires: every hour, so not before the
\* first hour has passed.
Cleanup ==
    /\ now >= CleanupMinutes
    /\ sessions' = Without({s \in DOMAIN sessions : sessions[s].expiresAt < now})
    /\ ExchangeOver
    /\ UNCHANGED <<now, CLAUDE_API_KEY, nextSession, issuedAt, loggedOut,
                   generatorVars, callVars, limiterVars>>

\* The choice that falls back to the direct key and the server's key when
\* the session is invalid or expired.
ClaudeApiKeyForWithFallback(sessionId, directApiKey) ==
    IF /\ sessionId # ""
       /\ sessionId \in DOMAIN sessions
       /\ ~(sessions[sessionId].expiresAt < now)
    THEN sessions[sessionId].claudeApiKey
    ELSE IF directApiKey # ""
    THEN directApiKey
    ELSE CLAUDE_API_KEY

\* The key /api/research calls the Claude API with (lines 485-505), empty
\* when the request is answered 401.
ClaudeApiKeyFor(sessionId, directApiKey) ==
    IF sessionId # ""
    THEN IF sessionId \notin DOMAIN sessions \/ sessions[sessionId].expiresAt < now
         THEN ""
         ELSE sessions[sessionId].claudeApiKey
    ELSE IF directApiKey # ""
    THEN directApiKey
    ELSE CLAUDE_API_KEY

\* POST /api/research (lines 476-554).  The call to the Claude API is made in
\* the same turn as the session is looked up; upstreamOk is its outcome.
Research(prompt, sessionId, directApiKey, upstreamOk) ==
    LET req == ResearchReq(prompt, sessionId, directApiKey)
        claudeApiKey == ClaudeApiKeyFor(sessionId, directApiKey)
    IN  IF prompt = ""
        THEN Answer(req, Json(400, [error |-> "Prompt is required"]), "")
        ELSE IF claudeApiKey = ""
        THEN Answer(req, Json(401, [error |-> IF sessionId # ""
                                              THEN "Invalid or expired session"
                                              ELSE "Authentication required"]), "")
        ELSE IF upstreamOk
        THEN Answer(req, Json(200, [success |-> "true", data |-> "claude-response"]),
                    claudeApiKey)
        ELSE Answer(req, Json(500, [success |-> "false",
                                    error |-> "Failed to complete research"]),
                    claudeApiKey)

ResearchStep ==
    /\ \E prompt \in Prompts, sessionId \in SessionIdHeaders,
          directApiKey \in ApiKeyHeaders, upstreamOk \in BOOLEAN :
            Research(prompt, sessionId, directApiKey, upstreamOk)
    /\ UNCHANGED <<now, CLAUDE_API_KEY, sessions, nextSession, issuedAt, loggedOut,
                   generatorVars, callVars, limiterVars>>

\* POST /api/candid/search (lines 559-599).
CandidSearch ==
    /\ \E upstreamOk \in BOOLEAN :
        IF upstreamOk
        THEN Answer(CandidSearchReq,
                    Json(200, [success |-> "true", data |-> "candid-response"]), "")
        ELSE Answer(CandidSearchReq,
                    Json(500, [success |-> "false",
                               error |-> "Failed to query Candid database"]), "")
    /\ UNCHANGED <<now, CLAUDE_API_KEY, sessions, nextSession, issuedAt, loggedOut,
                   generatorVars, callVars, limiterVars>>

\* POST /api/combined-research (lines 604-701): the Claude API is called with
\* the server's key, set or not.
CombinedResearch ==
    /\ \E usedCandid \in BOOLEAN, upstreamOk \in BOOLEAN :
        IF upstreamOk
        THEN Answer(CombinedResearchReq,
                    Json(200, [success |-> "true", analysis |-> "claude-response",
                               candidGrants |-> IF usedCandid THEN "candid-response"
                                                ELSE "null",
                               usedCandid |-> ToString(usedCandid)]),
                    CLAUDE_API_KEY)
        ELSE Answer(CombinedResearchReq,
                    Json(500, [success |-> "false",
                               error |-> "Failed to complete combined research"]),
                    CLAUDE_API_KEY)
    /\ UNCHANGED <<now, CLAUDE_API_KEY, sessions, nextSession, issuedAt, loggedOut,
                   generatorVars, callVars, limiterVars>>

\* GET /api/health (lines 706-715).
Health ==
    /\ Answer(HealthReq,
              Json(200, [status |-> "healthy", timestamp |-> ToString(now),
                         claude |-> ToString(CLAUDE_API_KEY # ""),
                         candid |-> ToString(CANDID_API_KEY # "")]), "")
    /\ UNCHANGED <<now, CLAUDE_API_KEY, sessions, nextSession, issuedAt, loggedOut,
                   generatorVars, callVars, limiterVars>>

\* app.use('/api/', limiter) (line 341): the limiter answers a request itself
\* and the route's handler does not run.
RateLimited ==
    /\ \E req \in ApiRequests :
        Answer(req, Json(429, [message |-> "Too many requests, please try again later."]),
               "")
    /\ UNCHANGED <<now, CLAUDE_API_KEY, sessions, nextSession, issuedAt, loggedOut,
                   generatorVars, callVars, limiterVars>>

\* Time passes.
Tick ==
    /\ \E step \in ClockSteps :
        /\ now + step <= MaxNow
        /\ now' = now + step
    /\ ExchangeOver
    /\ UNCHANGED <<CLAUDE_API_KEY, sessions, nextSession, issuedAt, loggedOut,
                   generatorVars, callVars, limiterVars>>

NextServer ==
    \/ ClaudeLoginStep
    \/ CandidLoginStep
    \/ LogoutStep
    \/ Cleanup
    \/ ResearchStep
    \/ CandidSearch
    \/ CombinedResearch
    \/ Health
    \/ RateLimited
    \/ Tick

SpecServer == InitServer /\ [][NextServer]_vars

(***************************************************************************)
(* The rate limiter of backend-server.js (SETUP.md, lines 334-341):        *)
(* express-rate-limit with its memory store, counting the requests of each *)
(* client IP per window of windowMs and admitting max of them.  Where the  *)
(* windows of an IP begin depends on the version of the package that is    *)
(* installed: at the first request the IP makes after its previous window  *)
(* ended, or every windowMs from the start of the server for all IPs.      *)
(***************************************************************************)
\* windowMs: 15 * 60 * 1000 ms.
WindowMinutes == 15
\* max: each IP is limited to 10 requests per window.
MaxPerWindow == 10

WindowPolicies == {"perClient", "global"}
LimiterClockSteps == {5}

\* The server has started with one of the two stores.
InitLimiter ==
    /\ NoGenerator
    /\ NoCalls
    /\ NoServer
    /\ windowPolicy \in WindowPolicies
    /\ hits = [ip \in ClientIps |-> 0]
    /\ resetTime = [ip \in ClientIps |-> 0]
    /\ admitted = [ip \in ClientIps |-> <<>>]
    /\ sent = 0
    /\ verdict = [ip |-> "", status |-> 0]

\* The window of ip that was open at its last request has ended.
WindowEnded(ip) == resetTime[ip] <= now

\* The end of the window a request of ip at the time now is counted in.
WindowEnd(ip) ==
    IF ~WindowEnded(ip)
    THEN resetTime[ip]
    ELSE IF windowPolicy = "perClient"
         THEN now + WindowMinutes
         ELSE ((now \div WindowMinutes) + 1) * WindowMinutes

\* The number of requests of ip counted in that window, this one included.
TotalHits(ip) == (IF WindowEnded(ip) THEN 0 ELSE hits[ip]) + 1

\* The limiter lets one request more than max pass.
WithinLimitOrOneOver(totalHits) == totalHits <= MaxPerWindow + 1

\* The limiter lets the request pass: totalHits <= max.
WithinLimit(totalHits) == totalHits <= MaxPerWindow

\* A request of ip to a route under /api/ reaches the limiter (line 341): it is
\* counted, and either passed on to the route's handler or answered 429.
ApiRequest(ip) ==
    /\ sent < MaxRequests
    /\ sent' = sent + 1
    /\ hits' = [hits EXCEPT ![ip] = TotalHits(ip)]
    /\ resetTime' = [resetTime EXCEPT ![ip] = WindowEnd(ip)]
    /\ IF WithinLimit(TotalHits(ip))
       THEN /\ admitted' = [admitted EXCEPT ![ip] = Append(@, now)]
            /\ verdict' = [ip |-> ip, status |-> 200]
       ELSE /\ admitted' = admitted
            /\ verdict' = [ip |-> ip, status |-> 429]
    /\ UNCHANGED <<windowPolicy, generatorVars, callVars, serverVars>>

\* Time passes.
LimiterTick ==
    /\ \E step \in LimiterClockSteps :
        /\ now + step <= MaxLimiterNow
        /\ now' = now + step
    /\ UNCHANGED <<CLAUDE_API_KEY, sessions, nextSession, issuedAt, loggedOut,
                   request, response, claudeKeyUsed>>
    /\ UNCHANGED <<windowPolicy, hits, resetTime, admitted, sent, verdict,
                   generatorVars, callVars>>

NextLimiter ==
    \/ \E ip \in ClientIps : ApiRequest(ip)
    \/ LimiterTick

SpecLimiter == InitLimiter /\ [][NextLimiter]_vars

(***************************************************************************)
(* Vocabulary of the properties.                                           *)
(***************************************************************************)
\* parseGrantText has returned and nothing else has happened since.
Parsed == pc = "parsed"

\* The candidate sections of the request's text that pass the length filter,
\* in source order.
KeptSections ==
    SelectSeq(SplitSections(text.str), LAMBDA x : Len(Trim(x)) > 50)

BlankLineSeparator == <<"\n", "\n">>

\* The positions of s where an accepted label variant followed by a colon
\* occurs, case-insensitively.
LabelOccurrences(s, labels) ==
    {i \in 1..Len(s) :
        \E n \in 1..Len(labels) :
            /\ StartsWithCI(s, i, labels[n])
            /\ i + Len(labels[n]) <= Len(s)
            /\ s[i + Len(labels[n])] = ":"}

\* The position of the colon of the occurrence at position i.
ColonOf(s, i, labels) ==
    LET n == CHOOSE n \in 1..Len(labels) :
                 /\ StartsWithCI(s, i, labels[n])
                 /\ i + Len(labels[n]) <= Len(s)
                 /\ s[i + Len(labels[n])] = ":"
    IN  i + Len(labels[n])

\* The colon of the earliest occurrence of a label of the field in s.
EarliestColon(s, labels) == ColonOf(s, Least(LabelOccurrences(s, labels)), labels)

\* The three labelled fields of a grant with the label variants of each.
FieldNames == {"organization", "amount", "deadline"}

LabelsOf(f) ==
    CASE f = "organization" -> OrganizationLabels
      [] f = "amount" -> AmountLabels
      [] f = "deadline" -> DeadlineLabels

FieldOf(grant, f) ==
    CASE f = "organization" -> grant.organization
      [] f = "amount" -> grant.amount
      [] f = "deadline" -> grant.deadline

(***************************************************************************)
(* C1: every record comes from a section whose trimmed length exceeds 50   *)
(* characters (its raw section is never empty), and a text whose trimmed   *)
(* length is under 50 characters parses to the empty list.                 *)
(***************************************************************************)
C1_RecordsFromLongSections ==
    Parsed =>
        /\ \A k \in 1..Len(grants) :
            /\ grants[k].raw # <<>>
            /\ Len(Trim(grants[k].raw)) > 50
        /\ (Len(Trim(text.str)) < 50 => grants = <<>>)

\* A text of several lines whose trimmed length is just under 50 was parsed.
C1_Witness ==
    /\ Parsed
    /\ Len(Trim(text.str)) \in 40..49
    /\ grants = <<>>

(***************************************************************************)
(* C2: the parser never raises an error: every call of parseGrantText,     *)
(* also for a request whose text field is missing, returns a list.         *)
(***************************************************************************)
C2_ParserNeverThrows == outcome # "TypeError"

(***************************************************************************)
(* C3: the records correspond one-to-one and in source order to the        *)
(* candidate sections that pass the length filter, and joining all         *)
(* candidate sections with the consumed blank-line separator gives back    *)
(* the input text.                                                         *)
(***************************************************************************)
C3_RecordsMatchSections ==
    Parsed =>
        /\ Len(grants) = Len(KeptSections)
        /\ \A k \in 1..Len(grants) : grants[k].raw = KeptSections[k]
        /\ JoinWith(SplitSections(text.str), BlankLineSeparator) = text.str

\* A text of several sections was parsed; some were kept and some discarded.
C3_Witness ==
    /\ Parsed
    /\ Len(grants) >= 1
    /\ Len(SplitSections(text.str)) > Len(grants)

(***************************************************************************)
(* C4: when the text is A, a blank line, then B, where A and B each parse  *)
(* alone to exactly one record and B begins with a boundary marker, the    *)
(* text parses to exactly the record of A followed by the record of B.     *)
(***************************************************************************)
\* b begins with a numeric list marker or the word "Grant" or "Foundation".
BeginsWithMarker(b) ==
    \/ \E n \in 1..(Len(b) - 1) :
        /\ \A j \in 1..n : IsDigit(b[j])
        /\ b[n + 1] = "."
    \/ StartsWith(b, 1, GrantWord)
    \/ StartsWith(b, 1, FoundationWord)

\* The positions i where the text reads A, "\n\n", B with A and B as in C4.
ChunkCuts ==
    {i \in 1..(Len(text.str) - 1) :
        /\ text.str[i] = "\n"
        /\ text.str[i + 1] = "\n"
        /\ BeginsWithMarker(SubSeq(text.str, i + 2, Len(text.str)))
        /\ Len(parseGrantText(SubSeq(text.str, 1, i - 1))) = 1
        /\ Len(parseGrantText(SubSeq(text.str, i + 2, Len(text.str)))) = 1}

C4_ConcatenationPreservesOrder ==
    Parsed =>
        \A i \in ChunkCuts :
            grants = parseGrantText(SubSeq(text.str, 1, i - 1))
                         \o parseGrantText(SubSeq(text.str, i + 2, Len(text.str)))

\* A concatenation of two independently parseable chunks was parsed.
C4_Witness ==
    /\ Parsed
    /\ ChunkCuts # {}
    /\ Len(grants) = 2

(***************************************************************************)
(* C5: the description of every record is the entire section text          *)
(* unchanged and equals the record's raw section, whichever fields were    *)
(* extracted.                                                              *)
(***************************************************************************)
C5_DescriptionIsSection ==
    Parsed =>
        /\ Len(grants) = Len(KeptSections)
        /\ \A k \in 1..Len(grants) :
            /\ grants[k].description = KeptSections[k]
            /\ grants[k].description = grants[k].raw

\* A record with an extracted field and a section that trimming would change.
C5_Witness ==
    /\ Parsed
    /\ \E k \in 1..Len(grants) :
        /\ grants[k].organization # Null
        /\ Trim(grants[k].raw) # grants[k].raw

(***************************************************************************)
(* C6 as stated: a field is null if and only if no accepted label variant  *)
(* followed by a colon occurs anywhere in the section; otherwise its value *)
(* comes from the earliest such occurrence.                                *)
(***************************************************************************)
\* The value that follows the colon at position c: white space is skipped, the
\* rest of the line reached is taken and trimmed.
ValueAfter(s, c) ==
    LET nonWhite == {k \in (c + 1)..Len(s) : ~IsWhite(s[k])}
    IN  IF nonWhite = {}
        THEN <<>>
        ELSE Trim(SubSeq(s, Least(nonWhite), LineEnd(s, Least(nonWhite)) - 1))

C6_NullIffNoLabel ==
    Parsed =>
        \A k \in 1..Len(grants) : \A f \in FieldNames :
            LET s == grants[k].raw
                v == FieldOf(grants[k], f)
            IN  /\ v = Null <=> LabelOccurrences(s, LabelsOf(f)) = {}
                /\ v # Null => v = Str(ValueAfter(s, EarliestColon(s, LabelsOf(f))))

(***************************************************************************)
(* C6 amended: a field is null if and only if the section holds no         *)
(* accepted label variant followed by a colon that has a character other   *)
(* than a line feed after it; otherwise exactly one value is captured and  *)
(* it comes from the earliest label-and-colon occurrence of the section.   *)
(***************************************************************************)
\* Some character other than a line feed follows position c.
HasTextAfter(s, c) == \E k \in (c + 1)..Len(s) : s[k] # "\n"

C6_NullIffNoLabelWithText ==
    Parsed =>
        \A k \in 1..Len(grants) : \A f \in FieldNames :
            LET s == grants[k].raw
                v == FieldOf(grants[k], f)
                occ == LabelOccurrences(s, LabelsOf(f))
            IN  /\ v = Null <=>
                       \A i \in occ : ~HasTextAfter(s, ColonOf(s, i, LabelsOf(f)))
                /\ v # Null => v = Str(ValueAfter(s, EarliestColon(s, LabelsOf(f))))

\* A section with two occurrences of a label whose values differ was parsed,
\* and the field holds the value of the earlier one.
C6_Witness ==
    /\ Parsed
    /\ \E k \in 1..Len(grants) : \E f \in FieldNames :
        LET s == grants[k].raw
            occ == LabelOccurrences(s, LabelsOf(f))
        IN  /\ Cardinality(occ) >= 2
            /\ ValueAfter(s, ColonOf(s, Least(occ), LabelsOf(f)))
                   # ValueAfter(s, ColonOf(s, Greatest(occ), LabelsOf(f)))
            /\ FieldOf(grants[k], f)
                   = Str(ValueAfter(s, ColonOf(s, Least(occ), LabelsOf(f))))

(***************************************************************************)
(* C7: a captured value is the trimmed remainder of the line that holds    *)
(* the matched label and colon; it never holds text of a following line.   *)
(***************************************************************************)
\* The trimmed remainder of the line after the colon at position c.
RestOfLine(s, c) == Trim(SubSeq(s, c + 1, LineEnd(s, c + 1) - 1))

C7_ValueFromLabelLine ==
    Parsed =>
        \A k \in 1..Len(grants) : \A f \in FieldNames :
            LET s == grants[k].raw
                v == FieldOf(grants[k], f)
            IN  v # Null => v = Str(RestOfLine(s, EarliestColon(s, LabelsOf(f))))

(***************************************************************************)
(* C8: the title is the first non-empty line with a leading numeric marker *)
(* and a leading prefix "Grant:" or "Foundation:" stripped; it never       *)
(* begins with a numeric marker or with one of these prefixes, also when   *)
(* the first non-empty line is indented.                                   *)
(***************************************************************************)
C8_TitleStripped ==
    Parsed =>
        \A k \in 1..Len(grants) :
            LET t == grants[k].title.str
            IN  /\ NumberMarkerEnd(t, 1) = 0
                /\ ~StartsWithCI(t, 1, GrantPrefix)
                /\ ~StartsWithCI(t, 1, FoundationPrefix)

(***************************************************************************)
(* C9: the worked example parses to exactly one record with title          *)
(* "Foundation ABC", organization "XYZ Corp", amount "$10,000" and         *)
(* deadline "2026-01-01"; in general a label word that is not followed by  *)
(* a colon is not taken as a field's match, so a field is only set when a  *)
(* label followed by a colon occurs in the section.                        *)
(***************************************************************************)
ExampleRecord ==
    [raw |-> WorkedExample,
     title |-> Str(<<"F", "o", "u", "n", "d", "a", "t", "i", "o", "n", " ", "A", "B", "C">>),
     organization |-> Str(<<"X", "Y", "Z", " ", "C", "o", "r", "p">>),
     amount |-> Str(<<"$", "1", "0", ",", "0", "0", "0">>),
     deadline |-> Str(<<"2", "0", "2", "6", "-", "0", "1", "-", "0", "1">>),
     description |-> WorkedExample]

C9_WorkedExample ==
    Parsed =>
        /\ text.str = WorkedExample => grants = <<ExampleRecord>>
        /\ \A k \in 1..Len(grants) : \A f \in FieldNames :
            FieldOf(grants[k], f) # Null
                => LabelOccurrences(grants[k].raw, LabelsOf(f)) # {}

\* The worked example was parsed.
C9_Witness ==
    /\ Parsed
    /\ text.str = WorkedExample
    /\ Len(grants) = 1

(***************************************************************************)
(* C10: the body holds the "Organization Profile" heading and paragraph if *)
(* and only if orgDescription is non-empty, and the "Search Parameters"    *)
(* heading if and only if contextParameters is non-empty; with a null      *)
(* orgDescription and no contextParameters neither heading is in the body. *)
(***************************************************************************)
\* The positions of the body that hold a level-2 heading reading t.
Headings2(t) ==
    {k \in 1..Len(children) : children[k] = Heading(2, t)}

OrgNonEmpty == orgDescription.type = "string" /\ Len(orgDescription.str) > 0

ParamsNonEmpty ==
    contextParameters.type = "array" /\ Len(contextParameters.items) > 0

C10_ConditionalSections ==
    pc \in {"built", "resolved"} =>
        /\ Headings2(OrganizationProfileText) # {} <=> OrgNonEmpty
        /\ \A k \in Headings2(OrganizationProfileText) :
            /\ k < Len(children)
            /\ children[k + 1] = Para(<<orgDescription.str>>)
        /\ Headings2(SearchParametersText) # {} <=> ParamsNonEmpty

\* A document was built for a null orgDescription and an empty
\* contextParameters, and neither heading is in its body.
C10_Witness ==
    /\ pc = "built"
    /\ orgDescription = Null
    /\ contextParameters = Array(<<>>)
    /\ Headings2(OrganizationProfileText) = {}
    /\ Headings2(SearchParametersText) = {}

(***************************************************************************)
(* C11: the body holds exactly one level-3 heading per parsed record, in   *)
(* the order of the records; the k-th heading reads "k. " followed by the  *)
(* record's title, or by "Grant Opportunity" when the title is empty; the  *)
(* text of three entries gives three headings numbered 1, 2 and 3.         *)
(***************************************************************************)
\* The level-3 headings of the body, in order.
Headings3 ==
    SelectSeq(children, LAMBDA e : e.kind = "heading" /\ e.level = 3)

DecimalDigits == <<"1", "2", "3", "4", "5", "6", "7", "8", "9">>

\* The text the k-th heading is to read for the record g.
HeadingTextOf(g, k) ==
    <<DecimalDigits[k], ".", " ">>
        \o (IF g.title.type = "string" /\ g.title.str # <<>>
            THEN g.title.str
            ELSE GrantOpportunityText)

C11_OneHeadingPerRecord ==
    pc \in {"built", "resolved"} =>
        /\ Len(Headings3) = Len(grants)
        /\ \A k \in 1..Len(grants) :
            Headings3[k].runs = <<HeadingTextOf(grants[k], k)>>
        /\ text.str = ThreeGrantsExample => Len(Headings3) = 3

\* The body of the three-entry text was built; its second record has an
\* empty title and its heading reads "2. Grant Opportunity".
C11_Witness ==
    /\ pc = "built"
    /\ text.str = ThreeGrantsExample
    /\ Len(grants) = 3
    /\ grants[2].title = Str(<<>>)
    /\ Headings3[2].runs = << <<"2", ".", " ">> \o GrantOpportunityText >>
    /\ Headings3[3].runs[1][1] = "3"

(***************************************************************************)
(* C12: a record's subsection is its heading, then the attribute table if  *)
(* and only if one of organization, amount and deadline is set, then the   *)
(* description paragraph; the table has one row per set field, in the      *)
(* order Organization, Amount, Deadline; a record with none of them gets   *)
(* the heading and the description only.  "Set" is read as non-null in     *)
(* C12_TableForNonNullFields and as non-null and non-empty in              *)
(* C12_TableForNonEmptyFields.                                             *)
(***************************************************************************)
\* The body after the "Grant Opportunities" heading.
GrantBody ==
    LET p == CHOOSE k \in 1..Len(children) :
                 children[k] = Heading(2, GrantOpportunitiesText)
    IN  SubSeq(children, p + 1, Len(children))

\* The field v counts as set: non-null, and non-empty when nonEmpty is asked.
IsSet(v, nonEmpty) == v.type = "string" /\ (nonEmpty => v.str # <<>>)

ExpectedRows(g, nonEmpty) ==
    (IF IsSet(g.organization, nonEmpty)
     THEN << <<OrganizationLabelText, g.organization.str>> >> ELSE <<>>)
    \o (IF IsSet(g.amount, nonEmpty)
        THEN << <<AmountLabelText, g.amount.str>> >> ELSE <<>>)
    \o (IF IsSet(g.deadline, nonEmpty)
        THEN << <<DeadlineLabelText, g.deadline.str>> >> ELSE <<>>)

ExpectedSubsection(g, k, nonEmpty) ==
    <<[kind |-> "heading", level |-> 3, runs |-> <<HeadingTextOf(g, k)>>,
       rows |-> <<>>]>>
    \o (IF ExpectedRows(g, nonEmpty) # <<>>
        THEN <<[kind |-> "table", level |-> 0, runs |-> <<>>,
                rows |-> ExpectedRows(g, nonEmpty)]>>
        ELSE <<>>)
    \o <<[kind |-> "paragraph", level |-> 0, runs |-> <<g.description>>,
          rows |-> <<>>]>>

RECURSIVE ExpectedBody(_, _, _)
ExpectedBody(gs, k, nonEmpty) ==
    IF k > Len(gs)
    THEN <<>>
    ELSE ExpectedSubsection(gs[k], k, nonEmpty) \o ExpectedBody(gs, k + 1, nonEmpty)

C12_TableForNonNullFields ==
    pc \in {"built", "resolved"} => GrantBody = ExpectedBody(grants, 1, FALSE)

C12_TableForNonEmptyFields ==
    pc \in {"built", "resolved"} => GrantBody = ExpectedBody(grants, 1, TRUE)

\* The body of the three-entry text was built: its first record has no field
\* set and gets a heading and a description, its third has an organization
\* and gets a one-row table between them.
C12_Witness ==
    /\ pc = "built"
    /\ text.str = ThreeGrantsExample
    /\ Len(GrantBody) = 7
    /\ GrantBody[2].kind = "paragraph"
    /\ GrantBody[6].kind = "table"
    /\ Len(GrantBody[6].rows) = 1

(***************************************************************************)
(* C13: the rendered body depends on the request alone: for the same text, *)
(* orgDescription, contextParameters and timestamp it is the same on every *)
(* host, whatever the host's environment (here its time zone).             *)
(***************************************************************************)
\* The body the same request gives on a host in the time zone zone.
BodyOnHost(zone) ==
    SectionChildren(orgDescription, contextParameters, grants,
                    toLocaleDateString(timestamp, zone))

C13_SameBodyOnEveryHost ==
    pc \in {"built", "resolved"} =>
        \A zone \in TimeZones : children = BodyOnHost(zone)

(***************************************************************************)
(* C14: a call of generateGrantReportWord fails only when the              *)
(* serialization step fails: whenever the call is rejected, it is rejected *)
(* with the error of Packer.toBuffer, and then no buffer is returned.      *)
(***************************************************************************)
C14_FailsOnlyOnSerialization ==
    /\ pc = "rejected" => outcome = "SerializationError"
    /\ outcome = "SerializationError" => pc = "rejected"

(***************************************************************************)
(* C15: however the calls interleave at their await, a call that resolves  *)
(* returns the buffer it returns when it runs alone, and no step changes a *)
(* call's request.                                                         *)
(***************************************************************************)
\* The buffer a call with the request req resolves with when it runs alone on
\* this host.
AloneResult(req) ==
    BufferOf(SectionChildren(req.orgDescription, req.contextParameters,
                             parseGrantText(req.text.str),
                             toLocaleDateString(req.timestamp, timeZone)))

C15_CallsIndependent ==
    /\ [](\A c \in DOMAIN callPc :
            callPc[c] = "resolved" => results[c] = AloneResult(requests[c]))
    /\ [][requests' = requests]_vars

\* Two calls with different requests were both awaiting their serialization
\* and the one that ran first has resolved after the other one ran.
C15_Witness ==
    /\ callPc # <<>>
    /\ callPc[1] = "resolved"
    /\ callPc[2] = "awaiting"
    /\ requests[1] # requests[2]
    /\ results[1] # BufferOf(doc[2])

(***************************************************************************)
(* C16: no response body sent to a client holds the value of a Claude or   *)
(* Candid API key stored on the server: the server's own keys and the keys *)
(* mapped to user credentials.                                             *)
(***************************************************************************)
Range(f) == {f[x] : x \in DOMAIN f}

\* The API keys the server stores.
StoredKeys ==
    ({CLAUDE_API_KEY, CANDID_API_KEY} \cup Range(CLAUDE_USERS) \cup Range(CANDID_USERS))
        \ {""}

\* The values of the fields of a response's body.
BodyValues(res) == Range(res.body)

C16_NoKeyInResponse == BodyValues(response) \cap StoredKeys = {}

(***************************************************************************)
(* C17: for each client IP at most 10 requests are passed on to a handler  *)
(* within a 15-minute period, and a request beyond them is answered by the *)
(* limiter.  C17_TenInAnyPeriod takes any period of 15 minutes;            *)
(* C17_TenInEachWindow takes the windows of the limiter.                   *)
(***************************************************************************)
\* The number of requests of ip passed on to a handler at a time from t on
\* and before t + WindowMinutes.
AdmittedIn(ip, t) ==
    Cardinality({k \in 1..Len(admitted[ip]) :
                    /\ admitted[ip][k] >= t
                    /\ admitted[ip][k] < t + WindowMinutes})

WindowStart(ip) == resetTime[ip] - WindowMinutes

RawsOf(gs) == [k \in 1..Len(gs) |-> gs[k].raw]

C18_KeepsFiftyOrMore ==
    Parsed =>
        RawsOf(grants) =
            SelectSeq(SplitSections(text.str), LAMBDA x : Len(Trim(x)) >= 50)

C18_KeepsMoreThanFifty ==
    Parsed =>
        RawsOf(grants) =
            SelectSeq(SplitSections(text.str), LAMBDA x : Len(Trim(x)) >= 51)

\* A text with a section of exactly 50 characters after trimming was parsed
\* and gave no record.
C18_Witness ==
    /\ Parsed
    /\ \E k \in 1..Len(SplitSections(text.str)) :
        Len(Trim(SplitSections(text.str)[k])) = 50
    /\ grants = <<>>

(***************************************************************************)
(* C19: the sections of a text begin exactly after the blank lines that    *)
(* are followed by a line beginning with a marker.  In C19_BlankLineAndWord*)
(* a blank line may hold spaces, tabs and carriage returns, and the words  *)
(* Grant and Foundation count as whole words only; in                      *)
(* C19_TwoLineFeedsAndPrefix a blank line is two adjacent line feeds and   *)
(* the words count as prefixes, so that "Grants" is a marker too.          *)
(***************************************************************************)
RECURSIVE SectionStart(_, _)
\* The position of the text at which its k-th section begins.
SectionStart(sections, k) ==
    IF k = 1
    THEN 1
    ELSE SectionStart(sections, k - 1) + Len(sections[k - 1])
             + Len(BlankLineSeparator)

\* The positions at which the sections after the first one begin.
ActualStarts(s) ==
    {SectionStart(SplitSections(s), k) : k \in 2..Len(SplitSections(s))}

\* Position i begins a line, and a blank line that may hold spaces, tabs and
\* carriage returns stands before that line.
AfterBlankLine(s, i) ==
    /\ i >= 3
    /\ s[i - 1] = "\n"
    /\ \E a \in 1..(i - 2) :
        /\ s[a] = "\n"
        /\ \A j \in (a + 1)..(i - 2) : s[j] \in {" ", "\t", "\r"}

C19_BlankLineAndWord ==
    Parsed =>
        ActualStarts(text.str) =
            {i \in 1..Len(text.str) :
                /\ AfterBlankLine(text.str, i)
                /\ \/ NumberMarkerEnd(text.str, i) # 0
                   \/ WholeWordAt(text.str, i, GrantWord)
                   \/ WholeWordAt(text.str, i, FoundationWord)}

C19_TwoLineFeedsAndPrefix ==
    Parsed =>
        ActualStarts(text.str) =
            {i \in 3..Len(text.str) :
                /\ text.str[i - 2] = "\n"
                /\ text.str[i - 1] = "\n"
                /\ BeginsWithMarker(SubSeq(text.str, i, Len(text.str)))}

\* The text whose second line is blank and whose third begins with "Grants"
\* was parsed into two records.
C19_Witness ==
    /\ Parsed
    /\ text.str = LongerWordExample
    /\ Len(grants) = 2
    /\ ActualStarts(text.str) = {Len(PaddingLine) + 3}

(***************************************************************************)
(* C20: a request to /api/research that carries a session ID which was     *)
(* logged out, has expired (more than 24 hours have passed since its       *)
(* creation) or was never issued gets no call to the Claude API made for   *)
(* it.  C20_DeadSessionGets401 says it is always answered 401;             *)
(* C20_DeadSessionNeverAuthorizes says it is answered 429 when the rate    *)
(* limiter rejects it, else 400 when its prompt is missing, else 401.      *)
(***************************************************************************)
\* The session ID was never issued, was logged out or has expired.
Dead(sessionId) ==
    \/ sessionId \notin DOMAIN issuedAt
    \/ sessionId \in loggedOut
    \/ now > issuedAt[sessionId] + SessionMinutes

\* The last request was a research request carrying a dead session ID.
ResearchWithDeadSession ==
    /\ request.route = "/api/research"
    /\ request.sessionId # ""
    /\ Dead(request.sessionId)

C20_DeadSessionGets401 ==
    ResearchWithDeadSession =>
        /\ response.status = 401
        /\ claudeKeyUsed = ""

C20_DeadSessionNeverAuthorizes ==
    ResearchWithDeadSession =>
        /\ claudeKeyUsed = ""
        /\ \/ response.status = 429
           \/ response.status = 400 /\ request.prompt = ""
           \/ response.status = 401 /\ request.prompt # ""

\* A session was created and logged out, and a research request with a
\* prompt that carried its ID was answered 401.
C20_Witness ==
    /\ request.route = "/api/research"
    /\ request.sessionId \in loggedOut
    /\ request.prompt # ""
    /\ response.status = 401
    /\ claudeKeyUsed = ""

(***************************************************************************)
(* C21: a request that reaches the handler of /api/research is answered    *)
(* 400 with no key chosen when its prompt is missing; otherwise the Claude *)
(* API is called with the key of the session named by x-session-id if the  *)
(* header is present, else with the x-claude-api-key header, else with the *)
(* server's CLAUDE_API_KEY, else the request is answered 401; and a        *)
(* request whose session ID is invalid or expired is answered 401 with no  *)
(* call to the Claude API, whatever other key is at hand.                  *)
(***************************************************************************)
\* The last request reached the handler of /api/research.
ResearchHandled ==
    /\ request.route = "/api/research"
    /\ response.status # 429

\* The request was answered with the given status and no call was made.
RefusedWith(status) ==
    /\ response.status = status
    /\ claudeKeyUsed = ""

\* The Claude API was called with the given key.
CalledWith(key) ==
    /\ claudeKeyUsed = key
    /\ response.status \in {200, 500}

C21_KeyPrecedence ==
    ResearchHandled =>
        IF request.prompt = ""
        THEN RefusedWith(400)
        ELSE IF request.sessionId # ""
        THEN IF Dead(request.sessionId)
             THEN RefusedWith(401)
             ELSE CalledWith(CLAUDE_USERS[sessions[request.sessionId].email])
        ELSE IF request.directApiKey # ""
        THEN CalledWith(request.directApiKey)
        ELSE IF CLAUDE_API_KEY # ""
        THEN CalledWith(CLAUDE_API_KEY)
        ELSE RefusedWith(401)

\* A request with a prompt, the ID of a logged-out session and a direct key,
\* sent to a server that has a key of its own, was answered 401 and no call
\* was made.
C21_Witness ==
    /\ ResearchHandled
    /\ request.prompt # ""
    /\ request.sessionId \in loggedOut
    /\ request.directApiKey # ""
    /\ CLAUDE_API_KEY # ""
    /\ RefusedWith(401)

====
